---- MODULE Spec2Model ----
(***************************************************************************)
(* compute_adjusted_sharpe (src/src/metric.py) as a state machine: one     *)
(* scoring call, from the two input frames to a score or a raised error.   *)
(*                                                                         *)
(* Numbers are binary floating point values, as numpy's float64 are, with  *)
(* Precision significand bits (float64 has 53), round-to-nearest-even      *)
(* after every operation and an unbounded exponent.  A value is the record *)
(* [m, e] standing for m * 2^e, normalised so that 2^(Precision-1) <= |m|  *)
(* < 2^Precision, or [m |-> 0, e |-> 0] for zero.  NaN is pandas' missing  *)
(* value.                                                                  *)
(***************************************************************************)
EXTENDS Integers, Sequences, FiniteSets

\* ------------------------------------------------------------------ bounds
Precision == 14
MaxRows == 3
MaxSub == 3

\* ------------------------------------------------------- float arithmetic
Abs(x) == IF x < 0 THEN -x ELSE x

Sgn(x) == IF x < 0 THEN -1 ELSE IF x > 0 THEN 1 ELSE 0

RECURSIVE BitLen(_)
BitLen(k) == IF k = 0 THEN 0 ELSE 1 + BitLen(k \div 2)

Zero == [m |-> 0, e |-> 0]

NaN == [m |-> 0, e |-> 1]

IsNaN(a) == a = NaN

\* The float nearest to sign * (mag + f) * 2^e, where 0 < f < 1 if sticky and
\* f = 0 otherwise; ties go to the even significand.
Round(sign, mag, e, sticky) ==
    IF mag = 0 THEN Zero
    ELSE LET k == BitLen(mag) - Precision IN
         IF k <= 0 THEN [m |-> sign * mag * 2^(-k), e |-> e + k]
         ELSE LET q == mag \div 2^k
                  r == mag % 2^k
                  half == 2^(k - 1)
                  up == r > half \/ (r = half /\ (sticky \/ q % 2 = 1))
                  q2 == IF up THEN q + 1 ELSE q
              IN IF q2 = 2^Precision
                 THEN [m |-> sign * 2^(Precision - 1), e |-> e + k + 1]
                 ELSE [m |-> sign * q2, e |-> e + k]

\* k * 2^e, for the literals and the input values.
Dy(k, e) == Round(Sgn(k), Abs(k), e, FALSE)

FromInt(k) == Dy(k, 0)

One == FromInt(1)

FNeg(a) == IF IsNaN(a) THEN NaN ELSE [m |-> -a.m, e |-> a.e]

FMul(a, b) ==
    IF IsNaN(a) \/ IsNaN(b) THEN NaN
    ELSE Round(Sgn(a.m) * Sgn(b.m), Abs(a.m) * Abs(b.m), a.e + b.e, FALSE)

\* |a| >= |b| > 0: three guard bits and a sticky bit, as the hardware adds.
AddOrdered(a, b) ==
    LET d == a.e - b.e
        A == Abs(a.m) * 8
        B == IF d <= 3 THEN Abs(b.m) * 2^(3 - d)
             ELSE IF d - 3 >= Precision THEN 0
             ELSE Abs(b.m) \div 2^(d - 3)
        st == IF d <= 3 THEN FALSE
              ELSE IF d - 3 >= Precision THEN TRUE
              ELSE Abs(b.m) % 2^(d - 3) # 0
    IN IF Sgn(a.m) = Sgn(b.m)
       THEN Round(Sgn(a.m), A + B, a.e - 3, st)
       ELSE LET S == A - B - (IF st THEN 1 ELSE 0)
            IN Round(Sgn(a.m) * Sgn(S), Abs(S), a.e - 3, st)

FAdd(a, b) ==
    IF IsNaN(a) \/ IsNaN(b) THEN NaN
    ELSE IF a.m = 0 THEN b
    ELSE IF b.m = 0 THEN a
    ELSE IF a.e < b.e THEN AddOrdered(b, a)
    ELSE AddOrdered(a, b)

FSub(a, b) == FAdd(a, FNeg(b))

\* b # 0 (the code's divisors are checked or are literals).
FDiv(a, b) ==
    IF IsNaN(a) \/ IsNaN(b) THEN NaN
    ELSE IF a.m = 0 THEN Zero
    ELSE LET num == Abs(a.m) * 2^(Precision + 1)
         IN Round(Sgn(a.m) * Sgn(b.m), num \div Abs(b.m),
                  a.e - b.e - (Precision + 1), num % Abs(b.m) # 0)

\* a < b; False when either is NaN, as IEEE comparisons are.
FLt(a, b) ==
    IF IsNaN(a) \/ IsNaN(b) THEN FALSE
    ELSE LET sa == Sgn(a.m)
             sb == Sgn(b.m)
         IN IF sa # sb THEN sa < sb
            ELSE IF sa = 0 THEN FALSE
            ELSE IF sa = 1 THEN a.e < b.e \/ (a.e = b.e /\ a.m < b.m)
            ELSE a.e > b.e \/ (a.e = b.e /\ a.m < b.m)

FGt(a, b) == FLt(b, a)

FLe(a, b) == ~IsNaN(a) /\ ~IsNaN(b) /\ ~FLt(b, a)

RECURSIVE NDiv(_, _, _)
NDiv(X, r, k) == IF k = 0 THEN X ELSE NDiv(X \div r, r, k - 1)

RECURSIVE IPow(_, _)
IPow(r, k) == IF k = 0 THEN 1 ELSE r * IPow(r, k - 1)

\* The largest r in lo..hi-1 with r^k <= X, given lo^k <= X < hi^k.
RECURSIVE IRootSearch(_, _, _, _)
IRootSearch(X, k, lo, hi) ==
    IF hi - lo <= 1 THEN lo
    ELSE LET mid == (lo + hi) \div 2
         IN IF NDiv(X, mid, k) >= 1
            THEN IRootSearch(X, k, mid, hi)
            ELSE IRootSearch(X, k, lo, mid)

IRoot(X, k) == IF k = 1 THEN X ELSE IRootSearch(X, k, 1, 46341)

\* a ** (1 / k) for a > 0 and k >= 1, and np.sqrt(a) as k = 2: the k-th root
\* of the significand scaled to the 31 bits at hand, then rounded.
FRoot(a, k) ==
    IF IsNaN(a) THEN NaN
    ELSE IF a.m = 0 THEN Zero
    ELSE LET jmax == 30 - Precision
             j == jmax - ((jmax - a.e) % k)
             X == a.m * 2^j
             r == IRoot(X, k)
         IN Round(1, r, (a.e - j) \div k, IPow(r, k) # X)

\* ------------------------------------------------------------ the inputs
\* (forward_returns, risk_free_rate) of a solution row: 0.5, -1.5, -0.25 and
\* a value that fills the significand; risk-free 0 or 0.25.
ActualValues ==
    { <<Dy(1, -1), Zero>>, <<Dy(-3, -1), Zero>>, <<Dy(-1, -2), Dy(1, -2)>>,
      <<Dy(10926, -14), Zero>> }

\* -0.5, 0, 1, 2 and 2.5.
PredictionValues == { Dy(-1, -1), Zero, One, FromInt(2), Dy(5, -1) }

\* The dtype of submission['prediction'].
Dtypes == { "float64", "object" }

\* Solution frames: row i has identifier i.
Solutions ==
    UNION { { [i \in 1..k |-> [id |-> i, forward_returns |-> f[i][1],
                               risk_free_rate |-> f[i][2]]] :
              f \in [1..k -> ActualValues] } : k \in 0..MaxRows }

SubmissionRows == [id : 1..MaxRows, prediction : PredictionValues]

\* Submission frames, listed by identifier; an identifier may repeat, and may
\* be one the solution does not hold.
Submissions ==
    UNION { { s \in [1..k -> SubmissionRows] :
              \A i \in 1..(k - 1) : s[i].id <= s[i + 1].id } : k \in 0..MaxSub }

\* ------------------------------------------------------------- the state
VARIABLES
    solution, submission, dtype,   \* the arguments
    pc,                            \* the stage the call has completed
    error,                         \* the exception raised, "" if none
    df,                            \* the merged frame
    n,
    strategy_excess_cum, strategy_mean_excess, strategy_std, sharpe,
    strategy_volatility,
    market_excess_cum, market_mean_excess, market_std, market_volatility,
    excess_vol, vol_penalty, return_gap, return_penalty,
    adjusted_sharpe,
    result                         \* the value returned

inputs == <<solution, submission, dtype>>

strategy_stats ==
    <<n, strategy_excess_cum, strategy_mean_excess, strategy_std, sharpe,
      strategy_volatility>>

market_stats ==
    <<market_excess_cum, market_mean_excess, market_std, market_volatility>>

penalties == <<excess_vol, vol_penalty, return_gap, return_penalty>>

vars ==
    <<inputs, pc, error, df, strategy_stats, market_stats, penalties,
      adjusted_sharpe, result>>

\* ------------------------------------------------------- pandas on columns
Column(frame, name) == [i \in 1..Len(frame) |-> frame[i][name]]

\* solution.merge(submission, on=row_id_col, how='left'): for each solution
\* row in turn, one joined row per submission row of that identifier, in the
\* submission's order, or one joined row with a missing prediction.
RECURSIVE MergeLeft(_, _)
MergeLeft(sol, sub) ==
    IF sol = << >> THEN << >>
    ELSE LET row == Head(sol)
             ms == SelectSeq(sub, LAMBDA r : r.id = row.id)
             joined(p) == [id |-> row.id,
                           forward_returns |-> row.forward_returns,
                           risk_free_rate |-> row.risk_free_rate,
                           prediction |-> p,
                           position |-> NaN,
                           strategy_returns |-> NaN]
         IN (IF ms = << >> THEN << joined(NaN) >>
             ELSE [i \in 1..Len(ms) |-> joined(ms[i].prediction)])
            \o MergeLeft(Tail(sol), sub)

\* Series.isnull().all() in its place.
AnyNullAsAll(s) == s # << >> /\ \A i \in 1..Len(s) : IsNaN(s[i])

\* Series.isnull().any()
AnyNull(s) == \E i \in 1..Len(s) : IsNaN(s[i])

\* Series.max() and Series.min(): NaN on an empty series.
RECURSIVE SeriesMax(_)
SeriesMax(s) ==
    IF s = << >> THEN NaN
    ELSE IF Len(s) = 1 THEN s[1]
    ELSE LET t == SeriesMax(Tail(s)) IN IF FLt(s[1], t) THEN t ELSE s[1]

RECURSIVE SeriesMin(_)
SeriesMin(s) ==
    IF s = << >> THEN NaN
    ELSE IF Len(s) = 1 THEN s[1]
    ELSE LET t == SeriesMin(Tail(s)) IN IF FLt(t, s[1]) THEN t ELSE s[1]

\* Series.sum(): left to right.
RECURSIVE SumFrom(_, _)
SumFrom(acc, s) == IF s = << >> THEN acc ELSE SumFrom(FAdd(acc, Head(s)), Tail(s))

SeriesSum(s) == SumFrom(Zero, s)

\* Series.prod(): 1.0 on an empty series.
RECURSIVE ProdFrom(_, _)
ProdFrom(acc, s) == IF s = << >> THEN acc ELSE ProdFrom(FMul(acc, Head(s)), Tail(s))

SeriesProd(s) == ProdFrom(One, s)

\* Series.mean(): the sum over the count.
SeriesMean(s) == IF s = << >> THEN NaN ELSE FDiv(SeriesSum(s), FromInt(Len(s)))

\* Series.std(ddof=0): the root of the mean squared deviation from the mean.
SeriesStd(s) ==
    IF s = << >> THEN NaN
    ELSE LET avg == SeriesMean(s)
             sqr == [i \in 1..Len(s) |-> FMul(FSub(avg, s[i]), FSub(avg, s[i]))]
         IN FRoot(FDiv(SeriesSum(sqr), FromInt(Len(s))), 2)

\* ------------------------------------------------------------- the stages
TradingDays == 252

Cap == 1000000

MissingPredictions == "Missing predictions for some rows after merge"

NotNumeric == "Predictions must be numeric"

OutOfBounds == "Predictions out of bounds [0,2]"

StrategyStdZero == "strategy std is zero"

MarketStdZero == "market std is zero"

ZeroDivisionError == "ZeroDivisionError: division by zero"

\* max(0, x)
MaxZero(x) == IF FGt(x, Zero) THEN x ELSE Zero

\* The bounds check with >= 2 and <= 0 in place of > 2 and < 0.
PredictionsOutOfBoundsInclusive(pred) ==
    FLe(FromInt(2), SeriesMax(pred)) \/ FLe(SeriesMin(pred), Zero)

\* df['prediction'].max() > 2 or df['prediction'].min() < 0
PredictionsOutOfBounds(pred) ==
    FGt(SeriesMax(pred), FromInt(2)) \/ FLt(SeriesMin(pred), Zero)

\* The two weights swapped.
StrategyReturnSwapped(risk_free_rate, position, forward_returns) ==
    FAdd(FMul(risk_free_rate, position),
         FMul(FSub(One, position), forward_returns))

\* risk_free_rate * (1 - position) + position * forward_returns
StrategyReturn(risk_free_rate, position, forward_returns) ==
    FAdd(FMul(risk_free_rate, FSub(One, position)),
         FMul(position, forward_returns))

WithReturns(frame) ==
    [i \in 1..Len(frame) |->
        [frame[i] EXCEPT
            !.position = frame[i].prediction,
            !.strategy_returns =
                StrategyReturn(frame[i].risk_free_rate, frame[i].prediction,
                               frame[i].forward_returns)]]

\* returns - risk_free_rate, row by row.
ExcessReturns(frame, name) ==
    [i \in 1..Len(frame) |-> FSub(frame[i][name], frame[i].risk_free_rate)]

\* (1 + excess).prod()
CumulativeGrowth(excess) ==
    SeriesProd([i \in 1..Len(excess) |-> FAdd(One, excess[i])])

\* The fallback taken on cum < 0 only.
MeanExcessStrictFallback(excess, cum, k) ==
    IF FLt(cum, Zero) THEN SeriesMean(excess) ELSE FSub(FRoot(cum, k), One)

\* The arithmetic mean when the cumulative product is not positive, the
\* geometric mean cum ** (1 / k) - 1 otherwise (k >= 1).
MeanExcess(excess, cum, k) ==
    IF FLe(cum, Zero) THEN SeriesMean(excess) ELSE FSub(FRoot(cum, k), One)

Sqrt252 == FRoot(FromInt(TradingDays), 2)

\* mean_excess / std * np.sqrt(252)
Sharpe(mean_excess, std) == FMul(FDiv(mean_excess, std), Sqrt252)

\* float(std * np.sqrt(252) * 100.0)
Volatility(std) == FMul(FMul(std, Sqrt252), FromInt(100))

\* The 1.2 allowance left out.
ExcessVolNoAllowance(strategy_vol, market_vol) ==
    MaxZero(FDiv(strategy_vol, market_vol))

\* max(0, strategy_volatility / market_volatility - 1.2)
ExcessVol(strategy_vol, market_vol) ==
    MaxZero(FSub(FDiv(strategy_vol, market_vol), FDiv(FromInt(6), FromInt(5))))

VolPenalty(ev) == FAdd(One, ev)

\* max(0, (market_mean_excess - strategy_mean_excess) * 100 * 252)
ReturnGap(market_mean, strategy_mean) ==
    MaxZero(FMul(FMul(FSub(market_mean, strategy_mean), FromInt(100)),
                 FromInt(TradingDays)))

\* 1 + (return_gap ** 2) / 100
ReturnPenalty(gap) == FAdd(One, FDiv(FMul(gap, gap), FromInt(100)))

\* The penalties multiplied in.
AdjustedSharpeTimesPenalties(sh, vp, rp) == FMul(sh, FMul(vp, rp))

\* sharpe / (vol_penalty * return_penalty)
AdjustedSharpe(sh, vp, rp) == FDiv(sh, FMul(vp, rp))

\* max in place of min.
CappedAsMax(adj) == IF FLt(adj, FromInt(Cap)) THEN FromInt(Cap) ELSE adj

\* min(float(adjusted_sharpe), 1_000_000)
Capped(adj) == IF FLt(FromInt(Cap), adj) THEN FromInt(Cap) ELSE adj

\* ------------------------------------------------------------ the actions
Raise(msg) == pc' = "raised" /\ error' = msg

\* Lines 54-67: the merge and the three checks of the prediction column.
Merge ==
    /\ pc = "start"
    /\ LET joined == MergeLeft(solution, submission)
           pred == Column(joined, "prediction")
       IN /\ df' = joined
          /\ IF AnyNull(pred) THEN Raise(MissingPredictions)
             ELSE IF dtype # "float64" THEN Raise(NotNumeric)
             ELSE IF PredictionsOutOfBounds(pred) THEN Raise(OutOfBounds)
             ELSE pc' = "merged" /\ error' = error
    /\ UNCHANGED <<inputs, strategy_stats, market_stats, penalties,
                   adjusted_sharpe, result>>

\* Lines 78-82: the position and the strategy return of every row.
ComputeReturns ==
    /\ pc = "merged"
    /\ df' = WithReturns(df)
    /\ pc' = "returns"
    /\ UNCHANGED <<inputs, error, strategy_stats, market_stats, penalties,
                   adjusted_sharpe, result>>

\* Lines 89-120: the strategy's mean excess return, deviation, Sharpe ratio
\* and volatility.  1 / n raises on an empty frame.
StrategyStats ==
    /\ pc = "returns"
    /\ LET excess == ExcessReturns(df, "strategy_returns")
           cum == CumulativeGrowth(excess)
           len == Len(df)
           mean == MeanExcess(excess, cum, len)
           std == SeriesStd(Column(df, "strategy_returns"))
       IN /\ strategy_excess_cum' = cum
          /\ n' = len
          /\ IF FGt(cum, Zero) /\ len = 0
             THEN /\ Raise(ZeroDivisionError)
                  /\ UNCHANGED <<strategy_mean_excess, strategy_std, sharpe,
                                 strategy_volatility>>
             ELSE /\ strategy_mean_excess' = mean
                  /\ strategy_std' = std
                  /\ IF std = Zero
                     THEN /\ Raise(StrategyStdZero)
                          /\ UNCHANGED <<sharpe, strategy_volatility>>
                     ELSE /\ sharpe' = Sharpe(mean, std)
                          /\ strategy_volatility' = Volatility(std)
                          /\ pc' = "strategy"
                          /\ error' = error
    /\ UNCHANGED <<inputs, df, market_stats, penalties, adjusted_sharpe,
                   result>>

\* Lines 126-137: the same for the market's forward returns.
MarketStats ==
    /\ pc = "strategy"
    /\ LET excess == ExcessReturns(df, "forward_returns")
           cum == CumulativeGrowth(excess)
           std == SeriesStd(Column(df, "forward_returns"))
           vol == Volatility(std)
       IN /\ market_excess_cum' = cum
          /\ market_mean_excess' = MeanExcess(excess, cum, n)
          /\ market_std' = std
          /\ market_volatility' = vol
          /\ IF vol = Zero THEN Raise(MarketStdZero)
             ELSE pc' = "market" /\ error' = error
    /\ UNCHANGED <<inputs, df, strategy_stats, penalties, adjusted_sharpe,
                   result>>

\* Lines 148-155: the two penalties.
Penalty ==
    /\ pc = "market"
    /\ LET ev == ExcessVol(strategy_volatility, market_volatility)
           gap == ReturnGap(market_mean_excess, strategy_mean_excess)
       IN /\ excess_vol' = ev
          /\ vol_penalty' = VolPenalty(ev)
          /\ return_gap' = gap
          /\ return_penalty' = ReturnPenalty(gap)
    /\ pc' = "penalty"
    /\ UNCHANGED <<inputs, error, df, strategy_stats, market_stats,
                   adjusted_sharpe, result>>

\* Lines 161-164: the penalised Sharpe ratio, capped.
Aggregate ==
    /\ pc = "penalty"
    /\ adjusted_sharpe' = AdjustedSharpe(sharpe, vol_penalty, return_penalty)
    /\ result' = Capped(AdjustedSharpe(sharpe, vol_penalty, return_penalty))
    /\ pc' = "done"
    /\ UNCHANGED <<inputs, error, df, strategy_stats, market_stats, penalties>>

\* ----------------------------------------------------- the specifications
Unset ==
    /\ error = ""
    /\ df = << >>
    /\ n = 0
    /\ strategy_excess_cum = NaN
    /\ strategy_mean_excess = NaN
    /\ strategy_std = NaN
    /\ sharpe = NaN
    /\ strategy_volatility = NaN
    /\ market_excess_cum = NaN
    /\ market_mean_excess = NaN
    /\ market_std = NaN
    /\ market_volatility = NaN
    /\ excess_vol = NaN
    /\ vol_penalty = NaN
    /\ return_gap = NaN
    /\ return_penalty = NaN
    /\ adjusted_sharpe = NaN
    /\ result = NaN

\* A call on any solution and submission of the bounded sets.
Init ==
    /\ solution \in Solutions
    /\ submission \in Submissions
    /\ dtype \in Dtypes
    /\ pc = "start"
    /\ Unset

Next ==
    \/ Merge
    \/ ComputeReturns
    \/ StrategyStats
    \/ MarketStats
    \/ Penalty
    \/ Aggregate

Spec == Init /\ [][Next]_vars

\* The penalty and aggregation stages on their own, as a function of the
\* statistics they read: the call stands after the market statistics, with
\* the mean excess returns and deviations of the sets below, and the Sharpe
\* ratio and the volatilities the code derives from them.

\* Mean excess returns per period: -1/128, 0, 1/4096, 1/128 and 1/8.
MeanValues == { Dy(-1, -7), Zero, Dy(1, -12), Dy(1, -7), Dy(1, -3) }

\* Deviations per period, from a nearly constant series (2^-27) to 1/32.
StdValues == { Dy(1, -27), Dy(1, -7), Dy(3, -8), Dy(1, -5) }

\* The frame itself, which these two stages do not read, is left empty.
InitAgg ==
    /\ solution = << >>
    /\ submission = << >>
    /\ dtype = "float64"
    /\ pc = "market"
    /\ error = ""
    /\ df = << >>
    /\ n = 0
    /\ strategy_excess_cum = NaN
    /\ strategy_mean_excess \in MeanValues
    /\ strategy_std \in StdValues
    /\ sharpe = Sharpe(strategy_mean_excess, strategy_std)
    /\ strategy_volatility = Volatility(strategy_std)
    /\ market_excess_cum = NaN
    /\ market_mean_excess \in MeanValues
    /\ market_std \in StdValues
    /\ market_volatility = Volatility(market_std)
    /\ excess_vol = NaN
    /\ vol_penalty = NaN
    /\ return_gap = NaN
    /\ return_penalty = NaN
    /\ adjusted_sharpe = NaN
    /\ result = NaN

NextAgg ==
    \/ Penalty
    \/ Aggregate

SpecAgg == InitAgg /\ [][NextAgg]_vars

\* ------------------------------------------------------------- the claims
Merged == pc # "start"

\* Some solution row's identifier is in no submission row.
SomeIdAbsent ==
    \E i \in 1..Len(solution) :
        \A j \in 1..Len(submission) : submission[j].id # solution[i].id

\* Some identifier is in two submission rows and in the solution.
SomeIdRepeated ==
    \E i \in 1..Len(solution) : \E j, k \in 1..Len(submission) :
        j # k /\ submission[j].id = solution[i].id
              /\ submission[k].id = solution[i].id

ZeroVolatility == error \in { StrategyStdZero, MarketStdZero }

\* The stages from ComputeReturns on have run.
ReturnsComputed ==
    \/ pc \in { "returns", "strategy", "market", "penalty", "done" }
    \/ error \in { StrategyStdZero, MarketStdZero, ZeroDivisionError }

StrategyStatsComputed == pc \in { "strategy", "market", "penalty", "done" }

MarketStatsComputed == pc \in { "market", "penalty", "done" }

Constant(s) == \A i, j \in 1..Len(s) : s[i] = s[j]

\* C1: after the merge the joined frame has exactly as many rows as the
\* solution, one per solution row, also when the submission repeats an
\* identifier or holds identifiers the solution does not.
C1_OneJoinedRowPerSolutionRow == Merged => Len(df) = Len(solution)

\* C2: whenever some solution row's identifier is absent from the submission,
\* the call raises the missing-prediction error and returns no score, whatever
\* the other rows and the column's dtype are.
C2_MissingPredictionFirst ==
    (Merged /\ SomeIdAbsent) =>
        /\ pc = "raised"
        /\ error = MissingPredictions
        /\ result = NaN

\* C2's case: an identifier is absent while another row's prediction is out
\* of bounds, and the missing-prediction error is the one raised.
C2_Witness ==
    /\ error = MissingPredictions
    /\ SomeIdAbsent
    /\ \E i \in 1..Len(df) : df[i].prediction = Dy(5, -1)

\* C3: when every solution row has a matching numeric prediction, the call
\* raises the out-of-bounds error if and only if some joined prediction is
\* below 0 or above 2 (0 and 2 themselves pass), and it raises it before any
\* strategy return, deviation or score is computed.
C3_OutOfBoundsIff ==
    (Merged /\ ~SomeIdAbsent /\ dtype = "float64") =>
        /\ (error = OutOfBounds) <=>
               \E i \in 1..Len(df) :
                   \/ FLt(df[i].prediction, FromInt(0))
                   \/ FLt(FromInt(2), df[i].prediction)
        /\ error = OutOfBounds =>
               /\ pc = "raised"
               /\ \A i \in 1..Len(df) : df[i].strategy_returns = NaN
               /\ strategy_std = NaN
               /\ market_std = NaN
               /\ result = NaN

\* C3's case: the out-of-bounds error on a frame whose forward returns are
\* constant (zero volatility, had the call gone on) and which also holds the
\* boundary prediction 2.
C3_Witness ==
    /\ error = OutOfBounds
    /\ Len(df) >= 2
    /\ Constant(Column(df, "forward_returns"))
    /\ \E i \in 1..Len(df) : df[i].prediction = FromInt(2)
    /\ \E i \in 1..Len(df) : df[i].prediction = Dy(-1, -1)

\* C4: once the merge and the validation have passed, a constant
\* strategy_returns series or a constant forward_returns series makes the call
\* raise the zero-volatility error, the strategy's check first, and a score
\* is returned only if both deviations are nonzero.  Stated for submissions
\* that hold each identifier once.
C4_ConstantSeriesRaises ==
    ~SomeIdRepeated =>
        /\ StrategyStatsComputed => ~Constant(Column(df, "strategy_returns"))
        /\ MarketStatsComputed => ~Constant(Column(df, "forward_returns"))
        /\ error = MarketStdZero => ~Constant(Column(df, "strategy_returns"))
        /\ pc = "done" => strategy_std # Zero /\ market_std # Zero

\* C5: the value returned is at most 1,000,000, and is the quotient
\* sharpe / (vol_penalty * return_penalty) itself when that is at most
\* 1,000,000.
C5_ScoreAtMostCap ==
    pc = "done" =>
        LET quotient == FDiv(sharpe, FMul(vol_penalty, return_penalty))
        IN /\ FLe(result, FromInt(1000000))
           /\ FLe(quotient, FromInt(1000000)) => result = quotient

\* C5's case: the quotient is above 1,000,000 and 1,000,000 is returned.
C5_Witness ==
    /\ pc = "done"
    /\ FGt(adjusted_sharpe, FromInt(1000000))
    /\ result = FromInt(1000000)

\* C6: every joined row's strategy return is
\* risk_free_rate * (1 - prediction) + prediction * forward_returns; it is the
\* row's forward return when the prediction is 1 and the row's risk-free rate
\* when the prediction is 0.
C6_StrategyReturnBlend ==
    ReturnsComputed =>
        \A i \in 1..Len(df) :
            LET r == df[i] IN
            /\ r.position = r.prediction
            /\ r.strategy_returns =
                   FAdd(FMul(r.risk_free_rate, FSub(FromInt(1), r.prediction)),
                        FMul(r.prediction, r.forward_returns))
            /\ r.prediction = FromInt(1) => r.strategy_returns = r.forward_returns
            /\ r.prediction = FromInt(0) => r.strategy_returns = r.risk_free_rate

\* C6's case: returns were computed for a frame holding a row of prediction 1
\* and a row of prediction 0 whose forward return and risk-free rate differ
\* and are not zero.
C6_Witness ==
    /\ ReturnsComputed
    /\ \E i, j \in 1..Len(df) :
        /\ df[i].prediction = FromInt(1)
        /\ df[j].prediction = FromInt(0)
        /\ df[i].risk_free_rate # Zero
        /\ df[j].risk_free_rate # Zero
        /\ df[i].forward_returns # df[i].risk_free_rate
        /\ df[j].forward_returns # df[j].risk_free_rate

AllPredictionsOne == \A i \in 1..Len(df) : df[i].prediction = FromInt(1)

\* C7: when every prediction is 1 and the call returns a score, excess_vol
\* and return_gap are 0, both penalties are 1 and the score is the market
\* series' own Sharpe ratio, capped at 1,000,000; with every prediction 1 a
\* zero-volatility error is raised only on constant forward returns.
C7_FullyInvestedIsMarketSharpe ==
    /\ (pc = "done" /\ AllPredictionsOne) =>
        LET market_sharpe ==
                FMul(FDiv(market_mean_excess, market_std),
                     FRoot(FromInt(252), 2))
        IN /\ excess_vol = Zero
           /\ return_gap = Zero
           /\ vol_penalty = FromInt(1)
           /\ return_penalty = FromInt(1)
           /\ strategy_mean_excess = market_mean_excess
           /\ strategy_std = market_std
           /\ result = IF FLt(FromInt(1000000), market_sharpe)
                       THEN FromInt(1000000) ELSE market_sharpe
    /\ (ZeroVolatility /\ AllPredictionsOne) =>
           Constant(Column(df, "forward_returns"))

\* C7's case: a score returned for three rows, all of prediction 1, with a
\* risk-free rate that is not zero somewhere.
C7_Witness ==
    /\ pc = "done"
    /\ AllPredictionsOne
    /\ Len(df) = 3
    /\ \E i \in 1..Len(df) : df[i].risk_free_rate # Zero
    /\ result # Zero

\* The score had the return gap been g, and had the excess volatility been v,
\* all else as it is.
ScoreWithGap(g) ==
    Capped(AdjustedSharpe(sharpe, vol_penalty, ReturnPenalty(g)))

ScoreWithExcessVol(v) ==
    Capped(AdjustedSharpe(sharpe, VolPenalty(v), return_penalty))

\* The return gaps and excess volatilities other market statistics would give
\* (the market's mean and deviation do not enter the Sharpe ratio).
OtherGaps == { ReturnGap(mm, strategy_mean_excess) : mm \in MeanValues }

OtherExcessVols ==
    { ExcessVol(strategy_volatility, Volatility(ms)) : ms \in StdValues }

\* C8 as stated: with the Sharpe ratio and the other penalty fixed, a strictly
\* larger return_gap gives a strictly smaller score, and so does a strictly
\* larger excess_vol, whatever the sign of the Sharpe ratio.
C8_StrictlyDecreasing ==
    pc = "done" =>
        /\ \A g \in OtherGaps :
               FGt(g, return_gap) => FLt(ScoreWithGap(g), result)
        /\ \A v \in OtherExcessVols :
               FGt(v, excess_vol) => FLt(ScoreWithExcessVol(v), result)

\* C8 as amended: a strictly larger return_gap or excess_vol gives a score
\* that is no larger when the Sharpe ratio is positive, no smaller when it is
\* negative, and the same zero when it is zero.
C8_MonotoneBySign ==
    pc = "done" =>
        \A s \in { ScoreWithGap(g) : g \in { h \in OtherGaps : FGt(h, return_gap) } }
             \cup { ScoreWithExcessVol(v) :
                      v \in { w \in OtherExcessVols : FGt(w, excess_vol) } } :
            /\ FGt(sharpe, Zero) => FLe(s, result)
            /\ FLt(sharpe, Zero) => FLe(result, s)
            /\ sharpe = Zero => s = Zero /\ result = Zero

\* C8's case: a positive Sharpe ratio, below the cap, for which a larger gap
\* and a larger excess volatility each give a strictly smaller score.
C8_Witness ==
    /\ pc = "done"
    /\ FGt(sharpe, Zero)
    /\ \E g \in OtherGaps : FGt(g, return_gap) /\ FLt(ScoreWithGap(g), result)
    /\ \E v \in OtherExcessVols :
           FGt(v, excess_vol) /\ FLt(ScoreWithExcessVol(v), result)

\* C9: a call ends with a score or with one of the four errors (missing
\* prediction, non-numeric prediction, out of bounds, zero volatility), and
\* with no score after an error; an empty solution included.
C9_FiveOutcomes ==
    /\ pc = "raised" =>
        /\ error \in { MissingPredictions, NotNumeric, OutOfBounds,
                       StrategyStdZero, MarketStdZero }
        /\ result = NaN
    /\ pc = "done" => error = "" /\ result # NaN

\* The sign of the product of 1 + excess over the rows: the product of the
\* factors' signs.
RECURSIVE SignOfProduct(_)
SignOfProduct(excess) ==
    IF excess = << >> THEN 1
    ELSE Sgn(FAdd(FromInt(1), Head(excess)).m) * SignOfProduct(Tail(excess))

\* The mean excess return C10 states, of a series of excess returns.
C10_Mean(excess) ==
    IF SignOfProduct(excess) <= 0
    THEN FDiv(SeriesSum(excess), FromInt(Len(df)))
    ELSE FSub(FRoot(SeriesProd([i \in 1..Len(excess) |->
                                   FAdd(FromInt(1), excess[i])]), Len(df)),
              FromInt(1))

\* C10: for the strategy and for the market, each on its own, mean_excess is
\* the arithmetic mean of the excess returns when the product of 1 + excess
\* is not positive and the geometric mean cum ** (1 / n) - 1 when it is
\* positive, n being the joined row count for both; return_gap is computed
\* from the two means whatever branches they took.
C10_MeanBranches ==
    /\ StrategyStatsComputed =>
        /\ n = Len(df)
        /\ strategy_mean_excess =
               C10_Mean([i \in 1..Len(df) |->
                   FSub(df[i].strategy_returns, df[i].risk_free_rate)])
    /\ MarketStatsComputed =>
        market_mean_excess =
            C10_Mean([i \in 1..Len(df) |->
                FSub(df[i].forward_returns, df[i].risk_free_rate)])
    /\ pc \in { "penalty", "done" } =>
        LET gap == FMul(FMul(FSub(market_mean_excess, strategy_mean_excess),
                             FromInt(100)), FromInt(252))
        IN return_gap = IF FGt(gap, Zero) THEN gap ELSE Zero

\* C10's case: in one call the strategy takes the arithmetic branch (its
\* product is zero) and the market the geometric one with two negative
\* factors, and the return gap is positive.
C10_Witness ==
    /\ pc = "done"
    /\ strategy_excess_cum = Zero
    /\ FGt(market_excess_cum, Zero)
    /\ Cardinality({ i \in 1..Len(df) :
           FLt(FAdd(FromInt(1), FSub(df[i].forward_returns,
                                     df[i].risk_free_rate)), Zero) }) = 2
    /\ FGt(return_gap, Zero)

====
